---- MODULE Spec2Model ----
(***************************************************************************)
(* Model of the clarify_be analysis back end: the Safety Gate              *)
(* (utils/safety.js), the staged extraction pipeline                       *)
(* (services/analysisService.js), the analytics hook and the chat          *)
(* controller with its session and message stores.                         *)
(*                                                                         *)
(* Text is a sequence of tokens.  A token stands for a whitespace-         *)
(* delimited run of characters of one lexical class; the half tokens       *)
(* (KWa, KWb, INJa, INJb) and TAG are glued to their neighbours, so that   *)
(* <<"KWa","TAG","KWb">> is "kill my<b></b>self".                          *)
(***************************************************************************)
EXTENDS Integers, Sequences, FiniteSets, TLC

\* ------------------------------------------------------------------ bounds
MaxLen == 3          \* tokens in an input enumerated for the Safety Gate

\* ------------------------------------------------------------- text tokens
Tokens ==
    { "w", "SP", "KW", "PAT", "KWa", "KWb", "INJ1", "INJ2", "INJa", "INJb",
      "TAG", "URL", "EMAIL", "PHONE", "SSN", "CARD", "NAME" }

RECURSIVE SeqsUpTo(_, _)
SeqsUpTo(S, n) ==
    IF n = 0 THEN { <<>> }
    ELSE LET prev == SeqsUpTo(S, n - 1)
         IN  prev \cup { Append(s, x) : s \in { p \in prev : Len(p) = n - 1 }, x \in S }

\* An alternative (a token sequence) occurs in s at position i.
OccursAt(alt, s, i) ==
    /\ i >= 1
    /\ i + Len(alt) - 1 <= Len(s)
    /\ \A k \in 1..Len(alt) : s[i + k - 1] = alt[k]

\* A pattern is a set of alternatives; it matches s when one occurs somewhere.
Matches(pat, s) ==
    \E alt \in pat : \E i \in 1..Len(s) : OccursAt(alt, s, i)

\* String.prototype.replace with a non-global regex: the leftmost match only.
ReplaceFirst(pat, s, tok) ==
    IF ~Matches(pat, s) THEN s
    ELSE LET i   == CHOOSE j \in 1..Len(s) :
                        /\ \E alt \in pat : OccursAt(alt, s, j)
                        /\ \A h \in 1..(j - 1) : ~\E alt \in pat : OccursAt(alt, s, h)
             alt == CHOOSE a \in pat : OccursAt(a, s, i)
         IN  SubSeq(s, 1, i - 1) \o <<tok>> \o SubSeq(s, i + Len(alt), Len(s))

\* String.prototype.replace with a global regex over single-token matches.
ReplaceAll(toks, s, tok) ==
    [ i \in 1..Len(s) |-> IF s[i] \in toks THEN tok ELSE s[i] ]

RECURSIVE Without(_, _)
Without(toks, s) ==
    IF s = <<>> THEN <<>>
    ELSE IF Head(s) \in toks THEN Without(toks, Tail(s))
         ELSE <<Head(s)>> \o Without(toks, Tail(s))

RECURSIVE TrimLeft(_)
TrimLeft(s) ==
    IF s # <<>> /\ Head(s) = "SP" THEN TrimLeft(Tail(s)) ELSE s

RECURSIVE TrimRight(_)
TrimRight(s) ==
    IF s # <<>> /\ s[Len(s)] = "SP" THEN TrimRight(SubSeq(s, 1, Len(s) - 1)) ELSE s

Trim(s) == TrimRight(TrimLeft(s))

\* ------------------------------------------------------------ Safety Gate
\* crisisKeywords: "KW" is a keyword in one piece, KWa KWb one in two glued halves.
crisisKeywords == { <<"KW">>, <<"KWa", "KWb">> }

\* crisisPatterns: "PAT" is a phrase only the regular expressions match.
crisisPatterns == { <<"PAT">> }

\* promptInjectionPatterns, in list order; each entry is one regular expression.
promptInjectionPatterns ==
    << { <<"INJ1">> }, { <<"INJ2">>, <<"INJa", "INJb">> } >>

MaxSanitizedLen == 10000

detectCrisis(input) ==
    IF input = <<>> THEN FALSE
    ELSE IF Matches(crisisKeywords, input) THEN TRUE
    ELSE IF Matches(crisisPatterns, input) THEN TRUE
    ELSE FALSE

\* detectPromptInjection that stops after the first pattern of the list
detectPromptInjectionFirstOnly(input) ==
    IF input = <<>> THEN FALSE
    ELSE Matches(promptInjectionPatterns[1], input)

detectPromptInjection(input) ==
    IF input = <<>> THEN FALSE
    ELSE \E p \in 1..Len(promptInjectionPatterns) :
             Matches(promptInjectionPatterns[p], input)

\* sanitize-html with no allowed tags: markup goes, text stays.
sanitizeHtml(input) == Without({ "TAG" }, input)

RECURSIVE RemoveInjections(_, _)
RemoveInjections(s, p) ==
    IF p > Len(promptInjectionPatterns) THEN s
    ELSE RemoveInjections(
             ReplaceFirst(promptInjectionPatterns[p], s, "[INJECTION_ATTEMPT_REMOVED]"),
             p + 1)

sanitizeInput(input) ==
    IF input = <<>> THEN <<>>
    ELSE LET stripped == sanitizeHtml(input)
             noUrls   == ReplaceAll({ "URL" }, stripped, "[URL_REMOVED]")
             noInj    == RemoveInjections(noUrls, 1)
             trimmed  == Trim(noInj)
         IN  SubSeq(trimmed, 1, IF Len(trimmed) < MaxSanitizedLen
                                THEN Len(trimmed) ELSE MaxSanitizedLen)

redactPII(text, redactNames) ==
    IF text = <<>> THEN <<>>
    ELSE LET r1 == ReplaceAll({ "EMAIL" }, text, "[EMAIL_REDACTED]")
             r2 == ReplaceAll({ "PHONE" }, r1, "[PHONE_REDACTED]")
             r3 == ReplaceAll({ "SSN" }, r2, "[SSN_REDACTED]")
             r4 == ReplaceAll({ "CARD" }, r3, "[CARD_REDACTED]")
         IN  IF redactNames THEN ReplaceAll({ "NAME" }, r4, "[NAME_REDACTED]") ELSE r4

NoResponse == [ code |-> "", resources |-> <<>> ]

getCrisisResponse ==
    [ code      |-> "CRISIS_DETECTED",
      resources |-> << "988 Suicide & Crisis Lifeline (US)",
                       "116 123 Samaritans (UK)",
                       "1-833-456-4566 Crisis Services Canada",
                       "International Association for Suicide Prevention" >> ]

\* The result object; a field the code leaves out holds FALSE, "" or <<>>.
GateResult(valid, crisis, err, resp, processed) ==
    [ isValid |-> valid, isCrisis |-> crisis, error |-> err,
      response |-> resp, processedInput |-> processed ]

\* validateInput with the injection check ahead of the crisis check
validateInputInjectionFirst(input, storageOptIn, redactNames) ==
    IF input = <<>>
    THEN GateResult(FALSE, FALSE, "Invalid input provided", NoResponse, <<>>)
    ELSE IF detectPromptInjection(input)
    THEN GateResult(FALSE, FALSE, "Invalid input detected", NoResponse, <<>>)
    ELSE IF detectCrisis(input)
    THEN GateResult(FALSE, TRUE, "", getCrisisResponse, <<>>)
    ELSE LET sanitized == sanitizeInput(input)
         IN  IF Len(sanitized) = 0
             THEN GateResult(FALSE, FALSE, "Input is empty after sanitization",
                             NoResponse, <<>>)
             ELSE GateResult(TRUE, FALSE, "", NoResponse,
                             IF storageOptIn /\ ~redactNames
                             THEN sanitized
                             ELSE redactPII(sanitized, redactNames))

validateInput(input, storageOptIn, redactNames) ==
    IF input = <<>>
    THEN GateResult(FALSE, FALSE, "Invalid input provided", NoResponse, <<>>)
    ELSE IF detectCrisis(input)
    THEN GateResult(FALSE, TRUE, "", getCrisisResponse, <<>>)
    ELSE IF detectPromptInjection(input)
    THEN GateResult(FALSE, FALSE, "Invalid input detected", NoResponse, <<>>)
    ELSE LET sanitized == sanitizeInput(input)
         IN  IF Len(sanitized) = 0
             THEN GateResult(FALSE, FALSE, "Input is empty after sanitization",
                             NoResponse, <<>>)
             ELSE GateResult(TRUE, FALSE, "", NoResponse,
                             IF storageOptIn /\ ~redactNames
                             THEN sanitized
                             ELSE redactPII(sanitized, redactNames))

\* ------------------------------------------------------------ JSON values
\* A value carries its JavaScript type in t.  A string keeps its character count
\* without surrounding whitespace (len), the whitespace around it (ws), its number
\* of space-separated words (words) and its content (txt; "model" for free text).
Undef == [ t |-> "undef" ]
Null  == [ t |-> "null" ]
Num   == [ t |-> "num" ]
Str(txt, len, ws, words) ==
    [ t |-> "str", txt |-> txt, len |-> len, ws |-> ws, words |-> words ]
Lit(txt, len, words) == Str(txt, len, 0, words)
Text(len) == Str("model", len, 0, 1)
Padded(len) == Str("model", len, 2, 1)
EmptyStr == Str("", 0, 0, 1)
Blank == Str("", 0, 2, 3)
Arr(items) == [ t |-> "arr", items |-> items ]
Obj(f) == [ t |-> "obj", f |-> f ]
Copies(n, v) == [ i \in 1..n |-> v ]

\* obj?.key
Get(o, k) == IF o.t = "obj" /\ k \in DOMAIN o.f THEN o.f[k] ELSE Undef

IsString(v) == v.t = "str"
Length(v) == v.len + v.ws
\* String.prototype.trim
TrimStr(v) == IF v.len = 0 THEN EmptyStr ELSE [ v EXCEPT !.ws = 0 ]
\* String.prototype.toLowerCase on the contents the model uses
LowerTxt(txt) ==
    CASE txt = "Safety"        -> "safety"
      [] txt = "STOP"          -> "stop"
      [] txt = "Values First"  -> "values first"
      [] txt = "Bridge Belief" -> "bridge belief"
      [] OTHER                 -> txt
ToLowerCase(v) == [ v EXCEPT !.txt = LowerTxt(v.txt) ]

Min(a, b) == IF a < b THEN a ELSE b

\* ------------------------------------------------------------ schemas (Joi)
needsEnum ==
    { "safety", "belonging", "autonomy", "competence", "purpose", "connection",
      "recognition", "control", "predictability", "growth", "contribution", "meaning" }

protocolEnum == { "STOP", "Values First", "Bridge Belief" }

\* Joi.string().min(lo).max(hi): a string, not empty, within the bounds
JoiString(v, lo, hi) == IsString(v) /\ Length(v) >= lo /\ Length(v) <= hi /\ Length(v) > 0

\* Joi.array().items(Joi.string().min(1).max(hi)).min(lo).max(n)
JoiStringArray(a, hi, lo, n) ==
    /\ Len(a) >= lo
    /\ Len(a) <= n
    /\ \A i \in 1..Len(a) : JoiString(a[i], 1, hi)

narrativeLoopSchema(nl) ==
    /\ JoiString(nl.trigger, 1, 1000)
    /\ JoiString(nl.fear, 1, 1000)
    /\ JoiString(nl.emotion, 1, 1000)
    /\ JoiString(nl.outcome, 1, 1000)
    /\ JoiString(nl.whyItFeelsReal, 1, 1000)
    /\ JoiString(nl.hiddenLogic, 1, 1000)
    /\ JoiStringArray(nl.breakingActions, 500, 1, 5)
    /\ JoiStringArray(nl.mechanisms, 200, 1, 10)

spiessMapSchema(sp) ==
    /\ JoiStringArray(sp.sensations, 200, 1, 5)
    /\ JoiStringArray(sp.emotions, 200, 1, 5)
    /\ Len(sp.needs) >= 1
    /\ Len(sp.needs) <= 3
    /\ \A i \in 1..Len(sp.needs) :
          IsString(sp.needs[i]) /\ sp.needs[i].ws = 0 /\ sp.needs[i].txt \in needsEnum
    /\ JoiString(sp.confirmationBias, 1, 1000)
    /\ JoiString(sp.microTest.description, 1, 500)
    /\ JoiString(sp.microTest.timeframe, 1, 100)
    /\ JoiString(sp.microTest.successCriteria, 1, 300)
    /\ IsString(sp.toolAction.protocol)
    /\ sp.toolAction.protocol.ws = 0
    /\ sp.toolAction.protocol.txt \in protocolEnum
    /\ JoiStringArray(sp.toolAction.steps, 300, 1, 5)
    /\ JoiString(sp.toolAction.example, 1, 500)

\* --------------------------------------------- normalize / repair / defaults
\* sanitizeString of the normalizers: a trimmed string, or '' for anything else
NormString(val) == IF IsString(val) THEN TrimStr(val) ELSE EmptyStr

NonEmpty(v) == Length(v) > 0

\* sanitizeArray of the normalizers: trimmed non-empty strings, or [] for a non-array
NormArray(arr) ==
    IF arr.t = "arr"
    THEN SelectSeq([ i \in 1..Len(arr.items) |-> NormString(arr.items[i]) ], NonEmpty)
    ELSE <<>>

\* a normalizer whose strings lose one surrounding blank per pass
TrimOne(val) ==
    IF IsString(val) THEN [ val EXCEPT !.ws = IF val.ws > 0 THEN val.ws - 1 ELSE 0 ]
    ELSE EmptyStr

normalizeNarrativeLoopTrimOne(nl) ==
    [ trigger         |-> TrimOne(Get(nl, "trigger")),
      fear            |-> TrimOne(Get(nl, "fear")),
      emotion         |-> TrimOne(Get(nl, "emotion")),
      outcome         |-> TrimOne(Get(nl, "outcome")),
      whyItFeelsReal  |-> TrimOne(Get(nl, "whyItFeelsReal")),
      hiddenLogic     |-> TrimOne(Get(nl, "hiddenLogic")),
      breakingActions |-> NormArray(Get(nl, "breakingActions")),
      mechanisms      |-> NormArray(Get(nl, "mechanisms")) ]

normalizeNarrativeLoop(nl) ==
    [ trigger         |-> NormString(Get(nl, "trigger")),
      fear            |-> NormString(Get(nl, "fear")),
      emotion         |-> NormString(Get(nl, "emotion")),
      outcome         |-> NormString(Get(nl, "outcome")),
      whyItFeelsReal  |-> NormString(Get(nl, "whyItFeelsReal")),
      hiddenLogic     |-> NormString(Get(nl, "hiddenLogic")),
      breakingActions |-> NormArray(Get(nl, "breakingActions")),
      mechanisms      |-> NormArray(Get(nl, "mechanisms")) ]

normalizeSpiessMap(sp) ==
    LET needs == NormArray(Get(sp, "needs"))
        micro == Get(sp, "microTest")
        tool  == Get(sp, "toolAction")
    IN  [ sensations       |-> NormArray(Get(sp, "sensations")),
          emotions         |-> NormArray(Get(sp, "emotions")),
          needs            |-> [ i \in 1..Len(needs) |-> ToLowerCase(needs[i]) ],
          confirmationBias |-> NormString(Get(sp, "confirmationBias")),
          microTest        |-> [ description     |-> NormString(Get(micro, "description")),
                                 timeframe       |-> NormString(Get(micro, "timeframe")),
                                 successCriteria |-> NormString(Get(micro, "successCriteria")) ],
          toolAction       |-> [ protocol |-> NormString(Get(tool, "protocol")),
                                 steps    |-> NormArray(Get(tool, "steps")),
                                 example  |-> NormString(Get(tool, "example")) ] ]

\* sanitizeString of the repairers: the trimmed string when not empty, else the fallback
RepairString(val, fallback) ==
    LET s == IF IsString(val) THEN TrimStr(val) ELSE EmptyStr
    IN  IF Length(s) > 0 THEN s ELSE fallback

\* the trimmed, non-empty strings of a list
Cleaned(arr) ==
    SelectSeq([ i \in 1..Len(arr) |-> IF IsString(arr[i]) THEN TrimStr(arr[i]) ELSE EmptyStr ],
              NonEmpty)

\* sanitizeArray of repairNarrativeLoop: no bound on the count
RepairArray(arr, fallbackItem) ==
    IF Len(Cleaned(arr)) > 0 THEN Cleaned(arr) ELSE <<fallbackItem>>

\* sanitizeArray of repairSpiessMap: cut to max items
RepairArrayMax(arr, fallbackItem, max) ==
    LET items == IF Len(Cleaned(arr)) = 0 THEN <<fallbackItem>> ELSE Cleaned(arr)
    IN  SubSeq(items, 1, Min(Len(items), max))

HypTrigger   == Lit("Hypothesis: Trigger not clearly identified", 42, 5)
HypFear      == Lit("Hypothesis: Fear not clearly identified", 39, 5)
HypEmotion   == Lit("Hypothesis: Emotion not clearly identified", 42, 5)
HypOutcome   == Lit("Hypothesis: Outcome not clearly identified", 42, 5)
HypWhy       == Lit("Hypothesis: Why it feels real not clearly identified", 52, 8)
HypHidden    == Lit("Hypothesis: Hidden logic not clearly identified", 47, 6)
HypAction    == Lit("Hypothesis: Breaking action not clearly identified", 50, 6)
HypMechanism == Lit("Hypothesis: Mechanism not clearly identified", 44, 5)
HypSensation == Lit("Hypothesis: Sensation not clearly identified", 44, 5)
HypBias      == Lit("Hypothesis: Confirmation bias not clearly identified", 52, 6)
HypMicro     == Lit("Hypothesis: Micro test not clearly identified", 45, 6)
Within24     == Lit("Within 24 hours", 15, 3)
HypCriteria  == Lit("Hypothesis: Success criteria not clearly identified", 51, 6)
HypStep      == Lit("Hypothesis: Tool action step not clearly identified", 51, 7)
HypExample   == Lit("Hypothesis: Tool action example not clearly identified", 54, 7)
Safety       == Lit("safety", 6, 1)
Stop         == Lit("STOP", 4, 1)

repairNarrativeLoop(nl) ==
    [ trigger         |-> RepairString(nl.trigger, HypTrigger),
      fear            |-> RepairString(nl.fear, HypFear),
      emotion         |-> RepairString(nl.emotion, HypEmotion),
      outcome         |-> RepairString(nl.outcome, HypOutcome),
      whyItFeelsReal  |-> RepairString(nl.whyItFeelsReal, HypWhy),
      hiddenLogic     |-> RepairString(nl.hiddenLogic, HypHidden),
      breakingActions |-> RepairArray(nl.breakingActions, HypAction),
      mechanisms      |-> RepairArray(nl.mechanisms, HypMechanism) ]

AllowedNeed(v) == v.txt \in needsEnum

\* sanitizeNeeds that cuts to three before it filters
sanitizeNeedsCutFirst(arr) ==
    LET cut == SubSeq(arr, 1, Min(Len(arr), 3))
        filtered ==
            SelectSeq([ i \in 1..Len(cut) |->
                          IF IsString(cut[i]) THEN TrimStr(cut[i]) ELSE EmptyStr ],
                      AllowedNeed)
    IN  IF Len(filtered) > 0 THEN filtered ELSE <<Safety>>

sanitizeNeeds(arr) ==
    LET filtered ==
            SelectSeq([ i \in 1..Len(arr) |->
                          IF IsString(arr[i]) THEN TrimStr(arr[i]) ELSE EmptyStr ],
                      AllowedNeed)
    IN  IF Len(filtered) > 0 THEN SubSeq(filtered, 1, Min(Len(filtered), 3)) ELSE <<Safety>>

\* sanitizeProtocol without the fallback: the trimmed value as it came
sanitizeProtocolKeep(val) ==
    IF IsString(val) THEN TrimStr(val) ELSE EmptyStr

sanitizeProtocol(val) ==
    LET v == IF IsString(val) THEN TrimStr(val) ELSE EmptyStr
    IN  IF v.txt \in protocolEnum THEN v ELSE Stop

repairSpiessMap(sp) ==
    [ sensations       |-> RepairArrayMax(sp.sensations, HypSensation, 5),
      emotions         |-> RepairArrayMax(sp.emotions, HypEmotion, 5),
      needs            |-> sanitizeNeeds(sp.needs),
      confirmationBias |-> RepairString(sp.confirmationBias, HypBias),
      microTest        |-> [ description     |-> RepairString(sp.microTest.description, HypMicro),
                             timeframe       |-> RepairString(sp.microTest.timeframe, Within24),
                             successCriteria |-> RepairString(sp.microTest.successCriteria,
                                                              HypCriteria) ],
      toolAction       |-> [ protocol |-> sanitizeProtocol(sp.toolAction.protocol),
                             steps    |-> RepairArrayMax(sp.toolAction.steps, HypStep, 5),
                             example  |-> RepairString(sp.toolAction.example, HypExample) ] ]

getDefaultNarrativeLoop ==
    [ trigger         |-> Lit("Unable to identify trigger", 26, 4),
      fear            |-> Lit("Unable to identify fear", 23, 4),
      emotion         |-> Lit("Unable to identify emotion", 26, 4),
      outcome         |-> Lit("Unable to identify outcome", 26, 4),
      whyItFeelsReal  |-> Lit("Unable to identify why it feels real", 36, 7),
      hiddenLogic     |-> Lit("Unable to identify hidden logic", 31, 5),
      breakingActions |-> << Lit("Unable to identify breaking actions", 35, 5) >>,
      mechanisms      |-> << Lit("Unable to identify mechanisms", 29, 4) >> ]

getDefaultSpiessMap ==
    [ sensations       |-> << Lit("Unable to identify sensations", 29, 4) >>,
      emotions         |-> << Lit("Unable to identify emotions", 27, 4) >>,
      needs            |-> << Safety >>,
      confirmationBias |-> Lit("Unable to identify confirmation bias", 36, 5),
      microTest        |-> [ description     |-> Lit("Unable to identify micro test", 29, 5),
                             timeframe       |-> Within24,
                             successCriteria |-> Lit("Unable to identify success criteria", 35, 5) ],
      toolAction       |-> [ protocol |-> Stop,
                             steps    |-> << Lit("Unable to identify tool action steps", 36, 6) >>,
                             example  |-> Lit("Unable to identify tool action example", 38, 6) ] ]

getDefaultSummary ==
    Obj([ content    |-> Lit("Unable to generate summary due to processing error.", 51, 8),
          mechanisms |-> Arr(<< Lit("Unable to identify mechanisms", 29, 4) >>),
          nextStep   |-> Lit("Please try again or contact support if the issue persists.",
                             58, 10) ])

\* ------------------------------------------------------ completion texts
\* A completion text is held by what each extraction strategy of safeJsonParse
\* finds in it: JSON.parse of the whole text (direct), JSON.parse of the first
\* fenced block (fenced; NoMatch without a non-empty block), whether the text has
\* a '{' before a later '}' (hasBraces), whether the scan closes the first '{'
\* (hasEnd), JSON.parse of that balanced region (balanced) and of the whole
\* first-to-last-brace substring (naive).
ParseError == [ t |-> "error" ]
NoMatch    == [ t |-> "nomatch" ]
Throw      == [ t |-> "throw" ]
None       == [ t |-> "none" ]

CompletionText(direct, fenced, hasBraces, hasEnd, balanced, naive) ==
    [ t |-> "text", direct |-> direct, fenced |-> fenced, hasBraces |-> hasBraces,
      hasEnd |-> hasEnd, balanced |-> balanced, naive |-> naive ]

\* the document alone
PlainJson(v) ==
    CompletionText(v, NoMatch, v.t = "obj", v.t = "obj",
                   IF v.t = "obj" THEN v ELSE ParseError,
                   IF v.t = "obj" THEN v ELSE ParseError)
\* prose around a ```json block
FencedJson(v) ==
    CompletionText(ParseError, v, v.t = "obj", v.t = "obj",
                   IF v.t = "obj" THEN v ELSE ParseError,
                   IF v.t = "obj" THEN v ELSE ParseError)
\* prose around a bare object
EmbeddedJson(v) == CompletionText(ParseError, NoMatch, TRUE, TRUE, v, ParseError)
\* prose only
Garbage == CompletionText(ParseError, NoMatch, FALSE, FALSE, ParseError, ParseError)
\* a '{' that is never closed by the scan, and nothing that parses
Unbalanced == CompletionText(ParseError, NoMatch, TRUE, FALSE, ParseError, ParseError)

Parsed(ok, data) == [ ok |-> ok, data |-> data ]

\* safeJsonParse that also tries the first-to-last-brace text after a balanced
\* region that does not parse
safeJsonParseNaiveAlways(text) ==
    IF text.direct.t # "error" THEN Parsed(TRUE, text.direct)
    ELSE IF text.fenced.t \notin { "nomatch", "error" } THEN Parsed(TRUE, text.fenced)
    ELSE IF text.hasBraces /\ text.hasEnd /\ text.balanced.t # "error"
         THEN Parsed(TRUE, text.balanced)
    ELSE IF text.hasBraces /\ text.naive.t # "error"
         THEN Parsed(TRUE, text.naive)
    ELSE Parsed(FALSE, text.direct)

\* the strategies in order; a failure carries the error of the whole-text parse
safeJsonParse(text) ==
    IF text.direct.t # "error" THEN Parsed(TRUE, text.direct)
    ELSE IF text.fenced.t \notin { "nomatch", "error" } THEN Parsed(TRUE, text.fenced)
    ELSE IF text.hasBraces /\ text.hasEnd /\ text.balanced.t # "error"
         THEN Parsed(TRUE, text.balanced)
    ELSE IF text.hasBraces /\ ~text.hasEnd /\ text.naive.t # "error"
         THEN Parsed(TRUE, text.naive)
    ELSE Parsed(FALSE, text.direct)

\* ------------------------------------------------------------ stage values
\* buildNarrativeLoop from the parse on: normalize, validate, repair on failure
LoopFromParsed(parsed) ==
    LET nl == normalizeNarrativeLoop(IF parsed.ok THEN parsed.data ELSE Obj(<<>>))
    IN  IF ~narrativeLoopSchema(nl) THEN repairNarrativeLoop(nl) ELSE nl

\* buildSpiessMap from the parse on
SpiessFromParsed(parsed) ==
    LET sp == normalizeSpiessMap(IF parsed.ok THEN parsed.data ELSE Obj(<<>>))
    IN  IF ~spiessMapSchema(sp) THEN repairSpiessMap(sp) ELSE sp

\* a JavaScript value in a condition
Truthy(v) ==
    CASE v.t \in { "undef", "null" } -> FALSE
      [] v.t = "str"                 -> Length(v) > 0
      [] OTHER                       -> TRUE

\* content.split(' ').slice(0, 251).join(' '): a cut one word late
FirstWordsOneMore(v, n) ==
    [ v EXCEPT !.words = n + 1, !.len = (v.len * (n + 1)) \div v.words ]

\* content.split(' ').slice(0, 250).join(' ')
FirstWords(v, n) ==
    [ v EXCEPT !.words = n, !.len = (v.len * n) \div v.words ]

\* buildSummary from the parse on: the parsed value as it is, its content cut to
\* 250 words; a value whose content cannot be read or split raises, and the
\* stage's catch returns the default
SummaryFromParsed(parsed) ==
    LET summary == IF parsed.ok THEN parsed.data ELSE getDefaultSummary
        content == Get(summary, "content")
    IN  IF summary.t \in { "null", "undef" } THEN getDefaultSummary
        ELSE IF ~Truthy(content) THEN summary
        ELSE IF content.t # "str" THEN getDefaultSummary
        ELSE IF content.words > 250
             THEN Obj([ summary.f EXCEPT !["content"] = FirstWords(content, 250) ])
             ELSE summary

\* generateClarifyingQuestions from the parse on
QuestionsFromParsed(parsed) ==
    LET questions == IF parsed.ok THEN parsed.data ELSE Arr(<<>>)
    IN  IF questions.t = "arr"
        THEN SubSeq(questions.items, 1, Min(Len(questions.items), 3))
        ELSE <<>>

\* content === 'YES': the comparison without trim() and toUpperCase()
AnswerIsYesExact(content) == content.txt = "YES" /\ content.ws = 0

\* content.trim().toUpperCase() === 'YES'
AnswerIsYes(content) == TrimStr(content).txt \in { "YES", "yes", "Yes" } /\ TrimStr(content).ws = 0

\* tag detection: which needles a content (or a key of the serialized
\* structures) holds once lower-cased
KeywordsIn(txt) ==
    CASE txt \in { "microTest", "Hypothesis: Micro test not clearly identified",
                   "Unable to identify micro test" }              -> { "test" }
      [] txt \in { "Hypothesis: Confirmation bias not clearly identified",
                   "Unable to identify confirmation bias" }       -> { "confirmation bias" }
      [] txt = "control"                                          -> { "control" }
      [] txt = "autonomy"                                         -> { "autonomy" }
      [] txt = "fear of rejection"                                -> { "rejection" }
      [] txt = "perfectionism"                                    -> { "perfect", "perfectionism" }
      [] OTHER                                                    -> {}

Range(f) == { f[x] : x \in DOMAIN f }

\* the keys JSON.stringify writes for the two structures
StructureKeys ==
    { "trigger", "fear", "emotion", "outcome", "whyItFeelsReal", "hiddenLogic",
      "breakingActions", "mechanisms", "sensations", "emotions", "needs",
      "confirmationBias", "microTest", "description", "timeframe", "successCriteria",
      "toolAction", "protocol", "steps", "example" }

\* the contents JSON.stringify writes for the two structures
StructureContents(nl, sp) ==
    { nl.trigger.txt, nl.fear.txt, nl.emotion.txt, nl.outcome.txt,
      nl.whyItFeelsReal.txt, nl.hiddenLogic.txt, sp.confirmationBias.txt,
      sp.microTest.description.txt, sp.microTest.timeframe.txt,
      sp.microTest.successCriteria.txt, sp.toolAction.protocol.txt,
      sp.toolAction.example.txt }
    \cup { v.txt : v \in Range(nl.breakingActions) \cup Range(nl.mechanisms)
                        \cup Range(sp.sensations) \cup Range(sp.emotions)
                        \cup Range(sp.needs) \cup Range(sp.toolAction.steps) }

TagRules ==
    << [ tag |-> "confirmation_bias",       any |-> { "confirmation bias", "confirmation_bias" } ],
       [ tag |-> "fear_of_rejection",       any |-> { "rejection", "rejection_sensitivity" } ],
       [ tag |-> "autonomy_threat",         any |-> { "control", "autonomy" } ],
       [ tag |-> "perfectionism",           any |-> { "perfect", "perfectionism" } ],
       [ tag |-> "people_pleasing",         any |-> { "people pleas", "approval" } ],
       [ tag |-> "boundary_signaling",      any |-> { "boundary", "limit" } ],
       [ tag |-> "attention_testing",       any |-> { "attention", "test" } ],
       [ tag |-> "vulnerability_avoidance", any |-> { "vulnerable", "vulnerability" } ] >>

TagHit(found, rule) == rule.any \cap found # {}

detectMechanisms(nl, sp) ==
    LET found == UNION { KeywordsIn(x) : x \in StructureKeys \cup StructureContents(nl, sp) }
        hits  == SelectSeq(TagRules, LAMBDA r : TagHit(found, r))
    IN  [ i \in 1..Len(hits) |-> hits[i].tag ]

\* mergeAnswersWithInput: the textual answers, joined by single spaces
RECURSIVE JoinAnswers(_)
JoinAnswers(parts) ==
    IF parts = <<>> THEN <<>>
    ELSE IF Len(parts) = 1 THEN parts[1]
    ELSE parts[1] \o <<"SP">> \o JoinAnswers(Tail(parts))

AnswerText(a) ==
    CASE a.t = "string" -> a.text
      [] a.t = "object" -> a.text
      [] OTHER          -> <<>>

NonEmptyText(s) == s # <<>>

mergeAnswersWithInput(answers) ==
    IF ~answers.isArray THEN <<>>
    ELSE JoinAnswers(SelectSeq([ i \in 1..Len(answers.items) |-> AnswerText(answers.items[i]) ],
                               NonEmptyText))

\* ------------------------------------------------------------------ state
VARIABLES
    gInput,        \* Safety Gate: the raw input under test
    gOptIn,        \* Safety Gate: storageOptIn of the call
    gRedact,       \* Safety Gate: redactNames of the call
    gResult,       \* Safety Gate: what validateInput returned
    gDone,         \* Safety Gate: validateInput has returned
    pc,            \* where the request in flight stands
    req,           \* the request in flight: entry point, input, flags, answers, sessionId
    validation,    \* what validateInput returned to analyze (None before)
    log,           \* completion calls issued and parses made, in order
    events,        \* analytics events handed to trackEvent, in order
    narrativeLoop, \* stage 1 value (None before)
    spiessMap,     \* stage 2 value (None before)
    result,        \* what the service returned to the controller (None before)
    response,      \* HTTP status of the last answered request (0 before)
    sessions,      \* Session collection
    messages,      \* Message collection
    served,        \* history: the analyze requests answered so far
    suspended      \* invocations waiting at an await while another runs: their locals

\* what no step of a request touches
gateVars == << gInput, gOptIn, gRedact, gResult, gDone, suspended >>

runVars == << pc, req, validation, log, events, narrativeLoop, spiessMap, result >>

storeVars == << response, sessions, messages, served >>

vars == << gInput, gOptIn, gRedact, gResult, gDone, pc, req, validation, log, events,
           narrativeLoop, spiessMap, result, response, sessions, messages, served,
           suspended >>

NoRequest ==
    [ entry |-> "none", input |-> <<>>, storageOptIn |-> FALSE, redactNames |-> TRUE,
      answers |-> [ isArray |-> FALSE, items |-> <<>> ],
      sessionId |-> [ kind |-> "none", n |-> 0 ] ]

GateIdle ==
    /\ gInput = <<>>
    /\ gOptIn = FALSE
    /\ gRedact = TRUE
    /\ gResult = GateResult(FALSE, FALSE, "", NoResponse, <<>>)
    /\ gDone = FALSE
    /\ suspended = <<>>

RunIdle ==
    /\ pc = "idle"
    /\ req = NoRequest
    /\ validation = None
    /\ log = <<>>
    /\ events = <<>>
    /\ narrativeLoop = None
    /\ spiessMap = None
    /\ result = None

StoreEmpty ==
    /\ response = 0
    /\ sessions = {}
    /\ messages = {}
    /\ served = <<>>

\* ------------------------------------------- the Safety Gate on its own
GateInputs == SeqsUpTo(Tokens, MaxLen)

GateInit ==
    /\ gInput \in GateInputs
    /\ gOptIn = FALSE
    /\ gRedact = TRUE
    /\ gResult = GateResult(FALSE, FALSE, "", NoResponse, <<>>)
    /\ gDone = FALSE
    /\ suspended = <<>>
    /\ RunIdle
    /\ StoreEmpty

GateValidate ==
    /\ ~gDone
    /\ \E o \in BOOLEAN, r \in BOOLEAN :
          /\ gOptIn' = o
          /\ gRedact' = r
          /\ gResult' = validateInput(gInput, o, r)
    /\ gDone' = TRUE
    /\ UNCHANGED << gInput, suspended, runVars, storeVars >>

GateNext == GateValidate

SpecGate == GateInit /\ [][GateNext]_vars

\* ============================================================ the pipeline
MaxRequests == 1     \* requests answered in one behaviour

\* ---------------------------------------------------------- what callers send
PipelineInputs ==
    { <<>>, <<"KW">>, <<"INJ1">>, <<"TAG">>, <<"NAME", "w", "EMAIL">>,
      <<"KWa", "TAG", "KWb">> }

StringAnswer(text) == [ t |-> "string", text |-> text ]
ObjectAnswer(text) == [ t |-> "object", text |-> text ]
OtherAnswer        == [ t |-> "other", text |-> <<>> ]
NotAnArray         == [ isArray |-> FALSE, items |-> <<>> ]
AnswerArray(items) == [ isArray |-> TRUE, items |-> items ]

AnswerLists ==
    { NotAnArray,
      AnswerArray(<<>>),
      AnswerArray(<< StringAnswer(<<"w">>) >>),
      AnswerArray(<< StringAnswer(<<"KW">>), OtherAnswer >>),
      AnswerArray(<< ObjectAnswer(<<"w">>), StringAnswer(<<"INJ1">>) >>) }

\* session identifiers: uuidv4() draws a fresh UUID; a client may send an ObjectId
NoId     == [ kind |-> "none", n |-> 0 ]
Uuid(n)  == [ kind |-> "uuid", n |-> n ]
Oid(n)   == [ kind |-> "oid", n |-> n ]
\* an identifier no invocation drew before: each one drawn is in served or in a
\* session_started event
uuidv4 ==
    Uuid(Len(served)
           + Cardinality({ i \in 1..Len(events) : events[i].name = "session_started" }) + 1)
\* mongoose.Types.ObjectId.isValid
ObjectIdIsValid(id) == id.kind = "oid"

ClientSessionIds == { NoId, Oid(1), Uuid(1) }

\* ---------------------------------------- what the completion service returns
GoodLoop ==
    Obj([ trigger |-> Text(40), fear |-> Padded(30), emotion |-> Text(10),
          outcome |-> Text(60), whyItFeelsReal |-> Text(80), hiddenLogic |-> Text(1000),
          breakingActions |-> Arr(Copies(3, Text(500))),
          mechanisms |-> Arr(<< Lit("perfectionism", 13, 1), Text(200) >>) ])

LongTriggerLoop == Obj([ GoodLoop.f EXCEPT !["trigger"] = Text(1001) ])
SixActionsLoop  == Obj([ GoodLoop.f EXCEPT !["breakingActions"] = Arr(Copies(6, Text(20))) ])
SparseLoop      == Obj([ trigger |-> Num, fear |-> Blank, mechanisms |-> Arr(<< Num, Blank >>) ])

GoodSpiess ==
    Obj([ sensations |-> Arr(Copies(2, Text(200))),
          emotions |-> Arr(<< Padded(12) >>),
          needs |-> Arr(<< Lit("Safety", 6, 1), Lit("belonging", 9, 1) >>),
          confirmationBias |-> Text(1000),
          microTest |-> Obj([ description |-> Text(500), timeframe |-> Text(100),
                              successCriteria |-> Text(300) ]),
          toolAction |-> Obj([ protocol |-> Lit("Values First", 12, 2),
                               steps |-> Arr(Copies(5, Text(300))),
                               example |-> Text(500) ]) ])

BadNeedsSpiess ==
    Obj([ GoodSpiess.f EXCEPT
            !["needs"] = Arr(<< Lit("happiness", 9, 1), Lit("control", 7, 1),
                                Lit("Safety", 6, 1), Lit("growth", 6, 1),
                                Lit("meaning", 7, 1) >>) ])
LongSensationSpiess ==
    Obj([ GoodSpiess.f EXCEPT !["sensations"] = Arr(<< Text(201) >>) ])
SevenStepsSpiess ==
    Obj([ GoodSpiess.f EXCEPT
            !["toolAction"] = Obj([ protocol |-> Lit("stop", 4, 1),
                                    steps |-> Arr(Copies(7, Text(30))),
                                    example |-> Num ]) ])

GoodSummary ==
    Obj([ content |-> Str("model", 900, 0, 180),
          mechanisms |-> Arr(Copies(2, Text(100))),
          nextStep |-> Text(200) ])
LongSummary == Obj([ GoodSummary.f EXCEPT !["content"] = Str("model", 1506, 0, 251) ])

NeedsQuestionsOutcomes ==
    { Throw, Lit("YES", 3, 1), Str("yes", 3, 2, 1), Lit("NO", 2, 1) }

QuestionsOutcomes ==
    { Throw, Garbage,
      PlainJson(Arr(Copies(2, Text(60)))),
      FencedJson(Arr(Copies(4, Text(60)))),
      PlainJson(Arr(<< Text(60), Num >>)),
      PlainJson(Obj(<<>>)) }

LoopOutcomes ==
    { Throw, Garbage, Unbalanced, PlainJson(GoodLoop), FencedJson(GoodLoop),
      EmbeddedJson(SparseLoop), PlainJson(Null), PlainJson(LongTriggerLoop),
      PlainJson(SixActionsLoop) }

SpiessOutcomes ==
    { Throw, Garbage, PlainJson(GoodSpiess), EmbeddedJson(BadNeedsSpiess),
      PlainJson(LongSensationSpiess), PlainJson(SevenStepsSpiess) }

SummaryOutcomes ==
    { Throw, Garbage, PlainJson(GoodSummary), FencedJson(LongSummary),
      PlainJson(Null), PlainJson(Num) }

\* what the completion service returns to retryJsonFix
RetryOutcomes(stage) ==
    CASE stage = "questions" -> { Throw, Garbage, PlainJson(Arr(Copies(4, Text(60)))) }
      [] stage = "loop"      -> { Throw, Garbage, PlainJson(GoodLoop), PlainJson(LongTriggerLoop) }
      [] stage = "spiess"    -> { Throw, Garbage, PlainJson(GoodSpiess), PlainJson(LongSensationSpiess) }
      [] stage = "summary"   -> { Throw, Garbage, PlainJson(GoodSummary) }

\* ------------------------------------------------------- records of a run
\* openai.chat.completions.create issued by a stage, with the text it is built on
Call(stage, arg) == [ op |-> "complete", stage |-> stage, arg |-> arg ]
\* retryJsonFix issued by a stage on its raw completion text
Retry(stage, rawContent) == [ op |-> "retryJsonFix", stage |-> stage, arg |-> rawContent ]
\* what a completion call returned to a stage that reads the text as it is
Returned(stage, content) == [ op |-> "returned", stage |-> stage, arg |-> content ]
\* safeJsonParse made by a stage
ParseMade(stage, ok) == [ op |-> "parse", stage |-> stage, ok |-> ok ]

\* AnalyticsService.trackEvent
Event(name, sessionId, reason) == [ name |-> name, sessionId |-> sessionId, reason |-> reason ]

BaseResult(sessionId) ==
    [ success |-> FALSE, sessionId |-> sessionId, stage |-> "", code |-> "", message |-> "",
      response |-> NoResponse, questions |-> <<>>, needsAnswers |-> FALSE,
      narrativeLoop |-> None, spiessMap |-> None, summary |-> None, tags |-> <<>> ]

ErrorResult(sessionId, code, message) ==
    [ BaseResult(sessionId) EXCEPT !.code = code, !.message = message ]

\* where the controller takes the result up again
ControllerPc == IF req.entry = "analyze" THEN "ctl_analyze" ELSE "ctl_answers"

\* ------------------------------------------------ controller: POST /v1/analyze
\* The controller takes the request; an empty input is answered 400 at once,
\* any other input goes to analysisService.analyze.
CtlAnalyze ==
    /\ pc = "idle"
    /\ Len(served) < MaxRequests
    /\ \E input \in PipelineInputs, optIn \in BOOLEAN, redact \in BOOLEAN :
          IF input = <<>>
          THEN /\ response' = 400
               /\ served' = Append(served, [ entry |-> "analyze", sessionId |-> NoId,
                                             input |-> input, storageOptIn |-> optIn ])
               /\ UNCHANGED << runVars, sessions, messages >>
          ELSE /\ req' = [ entry |-> "analyze", input |-> input, storageOptIn |-> optIn,
                           redactNames |-> redact, answers |-> NotAnArray, sessionId |-> NoId ]
               /\ pc' = "analyze"
               /\ UNCHANGED << validation, log, events, narrativeLoop, spiessMap, result,
                               storeVars >>
    /\ UNCHANGED gateVars

\* analyze that tracks input_received and asks needsClarifyingQuestions ahead of
\* looking at what the Safety Gate returned
AnalyzeStartGateLate ==
    /\ pc = "analyze"
    /\ LET sessionId == uuidv4
           v == validateInput(req.input, req.storageOptIn, req.redactNames)
           started == Append(events, Event("session_started", sessionId, ""))
       IN  /\ req' = [ req EXCEPT !.sessionId = sessionId ]
           /\ validation' = v
           /\ events' = Append(started, Event("input_received", sessionId, ""))
           /\ log' = Append(log, Call("needsQuestions", v.processedInput))
           /\ pc' = "needsQuestions"
           /\ UNCHANGED result
    /\ UNCHANGED << narrativeLoop, spiessMap, gateVars, storeVars >>

\* analyze up to its first completion call: the session identifier, the
\* session_started event, the Safety Gate, the two exits, the input_received
\* event and the call of needsClarifyingQuestions.
AnalyzeStart ==
    /\ pc = "analyze"
    /\ LET sessionId == uuidv4
           v == validateInput(req.input, req.storageOptIn, req.redactNames)
           started == Append(events, Event("session_started", sessionId, ""))
       IN  /\ req' = [ req EXCEPT !.sessionId = sessionId ]
           /\ validation' = v
           /\ IF ~v.isValid
              THEN IF v.isCrisis
                   THEN /\ events' = Append(started, Event("safe_exit", sessionId, "crisis_detected"))
                        /\ result' = [ BaseResult(sessionId) EXCEPT !.response = v.response ]
                        /\ pc' = "ctl_analyze"
                        /\ UNCHANGED log
                   ELSE /\ events' = Append(started, Event("safe_exit", sessionId, "invalid_input"))
                        /\ result' = ErrorResult(sessionId, "VALIDATION_ERROR", v.error)
                        /\ pc' = "ctl_analyze"
                        /\ UNCHANGED log
              ELSE /\ events' = Append(started, Event("input_received", sessionId, ""))
                   /\ log' = Append(log, Call("needsQuestions", v.processedInput))
                   /\ pc' = "needsQuestions"
                   /\ UNCHANGED result
    /\ UNCHANGED << narrativeLoop, spiessMap, gateVars, storeVars >>

\* needsClarifyingQuestions returns (false when the completion call raised);
\* analyze goes on to generateClarifyingQuestions or to processStages.
NeedsQuestionsReturn ==
    /\ pc = "needsQuestions"
    /\ \E o \in NeedsQuestionsOutcomes :
          LET needsQuestions == IF o = Throw THEN FALSE ELSE AnswerIsYes(o)
          IN  IF needsQuestions
              THEN /\ log' = log \o << Returned("needsQuestions", o),
                                       Call("questions", validation.processedInput) >>
                   /\ pc' = "questions"
              ELSE /\ log' = log \o << Returned("needsQuestions", o),
                                       Call("loop", validation.processedInput) >>
                   /\ pc' = "loop"
    /\ UNCHANGED << req, validation, events, narrativeLoop, spiessMap, result,
                    gateVars, storeVars >>

\* analyze whose catch returns the failure without tracking the safe exit
QuestionsDoneNoExitEvent(questions, newlog) ==
    /\ log' = newlog
    /\ IF \E i \in 1..Len(questions) : ~IsString(questions[i])
       THEN /\ events' = events
            /\ result' = ErrorResult(req.sessionId, "AI_PROCESSING_ERROR",
                                     "Analysis failed due to processing error")
       ELSE /\ events' = Append(events, Event("questions_asked", req.sessionId, ""))
            /\ result' = [ BaseResult(req.sessionId) EXCEPT
                             !.success = TRUE, !.stage = "clarifying_questions",
                             !.questions = questions, !.needsAnswers = TRUE ]
    /\ pc' = "ctl_analyze"
    /\ UNCHANGED << req, validation, narrativeLoop, spiessMap >>

\* analyze once generateClarifyingQuestions returned: trackQuestionsAsked, which
\* raises on a question that is no string (caught at the top of analyze), and
\* the result.
QuestionsDone(questions, newlog) ==
    /\ log' = newlog
    /\ IF \E i \in 1..Len(questions) : ~IsString(questions[i])
       THEN /\ events' = Append(events, Event("safe_exit", req.sessionId, "processing_error"))
            /\ result' = ErrorResult(req.sessionId, "AI_PROCESSING_ERROR",
                                     "Analysis failed due to processing error")
       ELSE /\ events' = Append(events, Event("questions_asked", req.sessionId, ""))
            /\ result' = [ BaseResult(req.sessionId) EXCEPT
                             !.success = TRUE, !.stage = "clarifying_questions",
                             !.questions = questions, !.needsAnswers = TRUE ]
    /\ pc' = "ctl_analyze"
    /\ UNCHANGED << req, validation, narrativeLoop, spiessMap >>

\* generateClarifyingQuestions: the completion returns
QuestionsReturn ==
    /\ pc = "questions"
    /\ \E o \in QuestionsOutcomes :
          IF o = Throw THEN QuestionsDone(<<>>, log)
          ELSE IF safeJsonParse(o).ok
          THEN QuestionsDone(QuestionsFromParsed(safeJsonParse(o)),
                             Append(log, ParseMade("questions", TRUE)))
          ELSE /\ log' = log \o << ParseMade("questions", FALSE), Retry("questions", o) >>
               /\ pc' = "questions_retry"
               /\ UNCHANGED << req, validation, events, narrativeLoop, spiessMap, result >>
    /\ UNCHANGED << gateVars, storeVars >>

\* generateClarifyingQuestions: retryJsonFix returns
QuestionsRetryReturn ==
    /\ pc = "questions_retry"
    /\ \E o \in RetryOutcomes("questions") :
          IF o = Throw THEN QuestionsDone(<<>>, log)
          ELSE QuestionsDone(QuestionsFromParsed(safeJsonParse(o)),
                             Append(log, ParseMade("questions", safeJsonParse(o).ok)))
    /\ UNCHANGED << gateVars, storeVars >>

\* processStages once buildNarrativeLoop returned: loop_built, then buildSpiessMap's call
LoopDone(nl, newlog) ==
    /\ narrativeLoop' = nl
    /\ events' = Append(events, Event("loop_built", req.sessionId, ""))
    /\ log' = Append(newlog, Call("spiess", nl))
    /\ pc' = "spiess"
    /\ UNCHANGED << req, validation, spiessMap, result >>

\* buildNarrativeLoop without its catch: a raised completion call ends the
\* invocation in the caller's catch
LoopReturnUncaught ==
    /\ pc = "loop"
    /\ \E o \in LoopOutcomes :
          IF o = Throw
          THEN /\ result' = ErrorResult(req.sessionId, "AI_PROCESSING_ERROR",
                                        "Analysis failed due to processing error")
               /\ events' = Append(events, Event("safe_exit", req.sessionId, "processing_error"))
               /\ pc' = ControllerPc
               /\ UNCHANGED << req, validation, log, narrativeLoop, spiessMap >>
          ELSE IF safeJsonParse(o).ok
          THEN LoopDone(LoopFromParsed(safeJsonParse(o)), Append(log, ParseMade("loop", TRUE)))
          ELSE /\ log' = log \o << ParseMade("loop", FALSE), Retry("loop", o) >>
               /\ pc' = "loop_retry"
               /\ UNCHANGED << req, validation, events, narrativeLoop, spiessMap, result >>
    /\ UNCHANGED << gateVars, storeVars >>

\* buildNarrativeLoop: the completion returns
LoopReturn ==
    /\ pc = "loop"
    /\ \E o \in LoopOutcomes :
          IF o = Throw THEN LoopDone(getDefaultNarrativeLoop, log)
          ELSE IF safeJsonParse(o).ok
          THEN LoopDone(LoopFromParsed(safeJsonParse(o)), Append(log, ParseMade("loop", TRUE)))
          ELSE /\ log' = log \o << ParseMade("loop", FALSE), Retry("loop", o) >>
               /\ pc' = "loop_retry"
               /\ UNCHANGED << req, validation, events, narrativeLoop, spiessMap, result >>
    /\ UNCHANGED << gateVars, storeVars >>

\* buildNarrativeLoop that hands a repaired text that still does not parse to
\* retryJsonFix again
LoopRetryReturnRepairAgain ==
    /\ pc = "loop_retry"
    /\ \E o \in RetryOutcomes("loop") :
          IF o = Throw THEN LoopDone(getDefaultNarrativeLoop, log)
          ELSE IF safeJsonParse(o).ok
          THEN LoopDone(LoopFromParsed(safeJsonParse(o)), Append(log, ParseMade("loop", TRUE)))
          ELSE /\ log' = log \o << ParseMade("loop", FALSE), Retry("loop", o) >>
               /\ pc' = "loop_retry"
               /\ UNCHANGED << req, validation, events, narrativeLoop, spiessMap, result >>
    /\ UNCHANGED << gateVars, storeVars >>

\* buildNarrativeLoop: retryJsonFix returns
LoopRetryReturn ==
    /\ pc = "loop_retry"
    /\ \E o \in RetryOutcomes("loop") :
          IF o = Throw THEN LoopDone(getDefaultNarrativeLoop, log)
          ELSE LoopDone(LoopFromParsed(safeJsonParse(o)),
                        Append(log, ParseMade("loop", safeJsonParse(o).ok)))
    /\ UNCHANGED << gateVars, storeVars >>

\* processStages that hands buildSummary the narrativeLoop alone
SpiessDoneLoopOnly(sp, newlog) ==
    /\ spiessMap' = sp
    /\ events' = Append(events, Event("spiess_built", req.sessionId, ""))
    /\ log' = Append(newlog, Call("summary", << narrativeLoop, getDefaultSpiessMap >>))
    /\ pc' = "summary"
    /\ UNCHANGED << req, validation, narrativeLoop, result >>

\* processStages once buildSpiessMap returned: spiess_built, then buildSummary's call
SpiessDone(sp, newlog) ==
    /\ spiessMap' = sp
    /\ events' = Append(events, Event("spiess_built", req.sessionId, ""))
    /\ log' = Append(newlog, Call("summary", << narrativeLoop, sp >>))
    /\ pc' = "summary"
    /\ UNCHANGED << req, validation, narrativeLoop, result >>

\* buildSpiessMap: the completion returns
SpiessReturn ==
    /\ pc = "spiess"
    /\ \E o \in SpiessOutcomes :
          IF o = Throw THEN SpiessDone(getDefaultSpiessMap, log)
          ELSE IF safeJsonParse(o).ok
          THEN SpiessDone(SpiessFromParsed(safeJsonParse(o)),
                          Append(log, ParseMade("spiess", TRUE)))
          ELSE /\ log' = log \o << ParseMade("spiess", FALSE), Retry("spiess", o) >>
               /\ pc' = "spiess_retry"
               /\ UNCHANGED << req, validation, events, narrativeLoop, spiessMap, result >>
    /\ UNCHANGED << gateVars, storeVars >>

\* buildSpiessMap: retryJsonFix returns
SpiessRetryReturn ==
    /\ pc = "spiess_retry"
    /\ \E o \in RetryOutcomes("spiess") :
          IF o = Throw THEN SpiessDone(getDefaultSpiessMap, log)
          ELSE SpiessDone(SpiessFromParsed(safeJsonParse(o)),
                          Append(log, ParseMade("spiess", safeJsonParse(o).ok)))
    /\ UNCHANGED << gateVars, storeVars >>

\* processStages once buildSummary returned: summary_built, detectMechanisms,
\* and the completed result of analyze or processAnswers
SummaryDone(summary, newlog) ==
    /\ log' = newlog
    /\ events' = Append(events, Event("summary_built", req.sessionId, ""))
    /\ result' = [ BaseResult(req.sessionId) EXCEPT
                     !.success = TRUE, !.stage = "completed",
                     !.narrativeLoop = narrativeLoop, !.spiessMap = spiessMap,
                     !.summary = summary,
                     !.tags = detectMechanisms(narrativeLoop, spiessMap) ]
    /\ pc' = ControllerPc
    /\ UNCHANGED << req, validation, narrativeLoop, spiessMap >>

\* buildSummary: the completion returns
SummaryReturn ==
    /\ pc = "summary"
    /\ \E o \in SummaryOutcomes :
          IF o = Throw THEN SummaryDone(getDefaultSummary, log)
          ELSE IF safeJsonParse(o).ok
          THEN SummaryDone(SummaryFromParsed(safeJsonParse(o)),
                           Append(log, ParseMade("summary", TRUE)))
          ELSE /\ log' = log \o << ParseMade("summary", FALSE), Retry("summary", o) >>
               /\ pc' = "summary_retry"
               /\ UNCHANGED << req, validation, events, narrativeLoop, spiessMap, result >>
    /\ UNCHANGED << gateVars, storeVars >>

\* buildSummary that gives up with an error when the repaired text does not parse
SummaryRetryReturnRaises ==
    /\ pc = "summary_retry"
    /\ \E o \in RetryOutcomes("summary") :
          IF o = Throw THEN SummaryDone(getDefaultSummary, log)
          ELSE IF safeJsonParse(o).ok
          THEN SummaryDone(SummaryFromParsed(safeJsonParse(o)),
                           Append(log, ParseMade("summary", TRUE)))
          ELSE /\ log' = Append(log, ParseMade("summary", FALSE))
               /\ result' = ErrorResult(req.sessionId, "AI_PROCESSING_ERROR",
                                        "Analysis failed due to processing error")
               /\ pc' = ControllerPc
               /\ UNCHANGED << req, validation, events, narrativeLoop, spiessMap >>
    /\ UNCHANGED << gateVars, storeVars >>

\* buildSummary: retryJsonFix returns
SummaryRetryReturn ==
    /\ pc = "summary_retry"
    /\ \E o \in RetryOutcomes("summary") :
          IF o = Throw THEN SummaryDone(getDefaultSummary, log)
          ELSE SummaryDone(SummaryFromParsed(safeJsonParse(o)),
                           Append(log, ParseMade("summary", safeJsonParse(o).ok)))
    /\ UNCHANGED << gateVars, storeVars >>

\* ------------------------------------------------------ the persistent store
\* The Session and Message models type sessionId as a required ObjectId: a
\* document whose sessionId does not cast is rejected by validation.
\* a sessionId path typed String: every identifier is taken
CastsAnyId(id) == id.kind \in { "oid", "uuid" }

CastsToObjectId(id) == id.kind = "oid"

SessionDoc(sessionId, input, storageOptIn, status) ==
    [ sessionId |-> sessionId, input |-> input, storageOptIn |-> storageOptIn,
      status |-> status ]

MessageDoc(sessionId, sender, kind, text) ==
    [ sessionId |-> sessionId, sender |-> sender, kind |-> kind, text |-> text ]

\* answers.map((a, i) => `A${i + 1}: ${a}`).join('\n')
RECURSIVE AnswersMessage(_)
AnswersMessage(items) ==
    IF items = <<>> THEN <<>>
    ELSE LET a == IF items[1].t = "string" THEN items[1].text ELSE <<"w">>
         IN  IF Len(items) = 1 THEN <<"w">> \o a
             ELSE <<"w">> \o a \o <<"SP">> \o AnswersMessage(Tail(items))

\* the run is over: the request leaves the service and the controller
RunReset ==
    /\ pc' = "idle"
    /\ req' = NoRequest
    /\ validation' = None
    /\ log' = <<>>
    /\ events' = <<>>
    /\ narrativeLoop' = None
    /\ spiessMap' = None
    /\ result' = None

Served(entry, sessionId, input, storageOptIn) ==
    [ entry |-> entry, sessionId |-> sessionId, input |-> input,
      storageOptIn |-> storageOptIn ]

\* The analyze controller once the service returned: 400 for a result without
\* success; otherwise the session is saved when storageOptIn is set, the input
\* and the questions are stored as messages, and the result is answered. Each
\* write is inside a try/catch: the store may reject it, and a rejected first
\* message skips the second.
CtlAnalyzeRespond ==
    /\ pc = "ctl_analyze"
    /\ IF ~result.success
       THEN /\ response' = 400
            /\ UNCHANGED << sessions, messages >>
       ELSE \E saved \in BOOLEAN, created \in BOOLEAN, createdToo \in BOOLEAN :
               LET session == SessionDoc(result.sessionId, req.input, req.storageOptIn, "active")
                   human == MessageDoc(result.sessionId, "human", "input", req.input)
                   openai == MessageDoc(result.sessionId, "openai", "questions", <<>>)
                   humanIn == created /\ CastsToObjectId(human.sessionId)
                   openaiIn == /\ humanIn
                               /\ Len(result.questions) > 0
                               /\ createdToo /\ CastsToObjectId(openai.sessionId)
               IN  /\ sessions' = IF req.storageOptIn /\ saved /\ CastsToObjectId(session.sessionId)
                                  THEN sessions \cup { session } ELSE sessions
                   /\ messages' = messages \cup (IF humanIn THEN { human } ELSE {})
                                           \cup (IF openaiIn THEN { openai } ELSE {})
                   /\ response' = 200
    /\ served' = Append(served, Served("analyze", req.sessionId, req.input, req.storageOptIn))
    /\ RunReset
    /\ UNCHANGED gateVars

\* ------------------------------------------------ controller: POST /v1/answers
\* the request validation of the answers endpoint
AnswersRequestValid(sessionId, answers) ==
    ~(sessionId = NoId \/ ~answers.isArray \/ ~ObjectIdIsValid(sessionId))

\* The controller takes the request: 400 without a session identifier that is a
\* valid ObjectId or without an answers array; otherwise processAnswers merges
\* the answers and processStages issues buildNarrativeLoop's completion call.
CtlAnswers ==
    /\ pc = "idle"
    /\ Len(served) < MaxRequests
    /\ \E sessionId \in ClientSessionIds, answers \in AnswerLists :
          IF ~AnswersRequestValid(sessionId, answers)
          THEN /\ response' = 400
               /\ served' = Append(served, Served("answers", sessionId, <<>>, FALSE))
               /\ UNCHANGED << runVars, sessions, messages >>
          ELSE /\ req' = [ entry |-> "answers", input |-> <<>>, storageOptIn |-> FALSE,
                           redactNames |-> TRUE, answers |-> answers, sessionId |-> sessionId ]
               /\ log' = Append(log, Call("loop", mergeAnswersWithInput(answers)))
               /\ pc' = "loop"
               /\ UNCHANGED << validation, events, narrativeLoop, spiessMap, result, storeVars >>
    /\ UNCHANGED gateVars

\* The answers controller once processAnswers returned: the session is updated
\* if one is found, the answers and the analysis are stored as messages.
CtlAnswersRespond ==
    /\ pc = "ctl_answers"
    /\ IF ~result.success
       THEN /\ response' = 400
            /\ UNCHANGED << sessions, messages >>
       ELSE \E saved \in BOOLEAN, created \in BOOLEAN, createdToo \in BOOLEAN :
               LET found == { s \in sessions : s.sessionId = req.sessionId }
                   human == MessageDoc(req.sessionId, "human", "answers",
                                       AnswersMessage(req.answers.items))
                   openai == MessageDoc(req.sessionId, "openai", "analysis", <<>>)
                   humanIn == created /\ CastsToObjectId(human.sessionId)
                   openaiIn == humanIn /\ createdToo /\ CastsToObjectId(openai.sessionId)
               IN  /\ sessions' = IF saved
                                  THEN (sessions \ found)
                                       \cup { [ s EXCEPT !.status = "completed" ] : s \in found }
                                  ELSE sessions
                   /\ messages' = messages \cup (IF humanIn THEN { human } ELSE {})
                                           \cup (IF openaiIn THEN { openai } ELSE {})
                   /\ response' = 200
    /\ served' = Append(served, Served("answers", req.sessionId, <<>>, FALSE))
    /\ RunReset
    /\ UNCHANGED gateVars

\* ------------------------------------------------------------ the program
Init ==
    /\ GateIdle
    /\ RunIdle
    /\ StoreEmpty

Next ==
    \/ CtlAnalyze
    \/ AnalyzeStart
    \/ NeedsQuestionsReturn
    \/ QuestionsReturn
    \/ QuestionsRetryReturn
    \/ LoopReturn
    \/ LoopRetryReturn
    \/ SpiessReturn
    \/ SpiessRetryReturn
    \/ SummaryReturn
    \/ SummaryRetryReturn
    \/ CtlAnalyzeRespond
    \/ CtlAnswers
    \/ CtlAnswersRespond

Spec == Init /\ [][Next]_vars

\* ============================================================ Safety Gate claims
HasCrisisContent(s) == Matches(crisisKeywords, s) \/ Matches(crisisPatterns, s)

HasInjectionContent(s) ==
    \E p \in 1..Len(promptInjectionPatterns) : Matches(promptInjectionPatterns[p], s)

Contains(s, toks) == \E i \in 1..Len(s) : s[i] \in toks

\* C4: an input that matches a crisis keyword or crisis pattern is answered with
\* isValid = false, isCrisis = true, code CRISIS_DETECTED and a non-empty resource
\* list, whatever the flags and whatever else the input matches.
C4_CrisisDecidedFirst ==
    (gDone /\ HasCrisisContent(gInput)) =>
        /\ gResult.isValid = FALSE
        /\ gResult.isCrisis = TRUE
        /\ gResult.response.code = "CRISIS_DETECTED"
        /\ Len(gResult.response.resources) > 0

C4_Witness ==
    /\ gDone
    /\ HasCrisisContent(gInput)
    /\ HasInjectionContent(gInput)
    /\ Contains(gInput, { "TAG" })
    /\ gOptIn /\ ~gRedact
    /\ gResult.isCrisis

\* C6: the processed input of an accepted input holds no email, phone,
\* government-id or payment-card pattern, whatever storageOptIn and redactNames are.
C6_FourRedactionsAlways ==
    (gDone /\ gResult.isValid) =>
        ~Contains(gResult.processedInput, { "EMAIL", "PHONE", "SSN", "CARD" })

\* C7: the processed input keeps a name pattern only when storageOptIn is true
\* and redactNames is false; with redactNames true or storageOptIn false it is redacted.
C7_NamesRedactedByDefault ==
    (gDone /\ gResult.isValid /\ (gRedact \/ ~gOptIn)) =>
        ~Contains(gResult.processedInput, { "NAME" })

\* C9: an input that matches an injection pattern and no crisis content is
\* rejected without isCrisis and with one fixed result, the same for every pattern.
C9_InjectionRejectedGenerically ==
    (gDone /\ HasInjectionContent(gInput) /\ ~HasCrisisContent(gInput)) =>
        gResult = GateResult(FALSE, FALSE, "Invalid input detected", NoResponse, <<>>)

C9_Witness ==
    /\ gDone
    /\ Matches(promptInjectionPatterns[2], gInput)
    /\ ~Matches(promptInjectionPatterns[1], gInput)
    /\ ~HasCrisisContent(gInput)
    /\ gResult.error = "Invalid input detected"

\* ============================================================ pipeline claims
StagesOnCallerText == { "needsQuestions", "questions", "loop" }

EventNames == { events[i].name : i \in 1..Len(events) }

Completed == result # None /\ result.stage = "completed"

\* C1: every completion call built on caller-supplied text is made on the
\* processedInput of an input that validateInput accepted, in analyze and in
\* processAnswers alike.
C1_CallsOnlyOnAcceptedText ==
    \A i \in 1..Len(log) :
        (/\ log[i].op = "complete"
         /\ log[i].stage \in StagesOnCallerText
         /\ log[i].arg # <<>>) =>
            /\ validation # None
            /\ validation.isValid
            /\ log[i].arg = validation.processedInput

\* C2: the narrativeLoop of a completed result satisfies narrativeLoopSchema,
\* whatever the completion service returned.
C2_ReturnedLoopInSchema ==
    Completed => narrativeLoopSchema(result.narrativeLoop)

\* C3: the spiessMap of a completed result satisfies spiessMapSchema, whatever
\* the completion service returned, repaired values included.
C3_ReturnedSpiessInSchema ==
    Completed => spiessMapSchema(result.spiessMap)

\* C5: an analyze invocation on crisis input goes straight to the crisis exit:
\* no completion call, no input_received, questions_asked, loop_built,
\* spiess_built or summary_built event, a safe_exit event, and the crisis
\* response returned with success = false.
C5_CrisisShortCircuits ==
    (validation # None /\ validation.isCrisis) =>
        /\ pc = "ctl_analyze"
        /\ \A i \in 1..Len(log) : log[i].op # "complete"
        /\ EventNames \cap { "input_received", "questions_asked", "loop_built",
                             "spiess_built", "summary_built" } = {}
        /\ "safe_exit" \in EventNames
        /\ result # None
        /\ result.success = FALSE
        /\ result.response = getCrisisResponse

C5_Witness ==
    /\ pc = "ctl_analyze"
    /\ req.entry = "analyze"
    /\ detectCrisis(req.input)
    /\ validation # None /\ validation.isCrisis
    /\ EventNames = { "session_started", "safe_exit" }
    /\ result.response.code = "CRISIS_DETECTED"

\* C8: a session or message record holding the raw input of an analyze request
\* belongs to a request made with storageOptIn = true; a request made with
\* storageOptIn = false leaves no such record.
RawInputRecords ==
    { [ sessionId |-> s.sessionId, text |-> s.input ] : s \in sessions }
    \cup { [ sessionId |-> m.sessionId, text |-> m.text ] :
             m \in { x \in messages : x.kind = "input" } }

C10_OneRepairAfterFailedParse ==
    \A i \in 1..Len(log) :
        log[i].op = "retryJsonFix" =>
            /\ i >= 3
            /\ log[i - 1] = ParseMade(log[i].stage, FALSE)
            /\ log[i - 2].op = "complete"
            /\ log[i - 2].stage = log[i].stage

C10_Witness ==
    \E i \in 1..Len(log) :
        /\ log[i].op = "retryJsonFix"
        /\ i + 2 <= Len(log)
        /\ log[i + 1] = ParseMade(log[i].stage, FALSE)
        /\ log[i + 2].op = "complete"
        /\ log[i + 2].stage # log[i].stage

\* ============================================================ failure handling claims
ExtractionStages == { "loop", "spiess", "summary" }

AtController == pc \in { "ctl_analyze", "ctl_answers" }

CalledStage(stage) ==
    \E i \in 1..Len(log) : log[i].op = "complete" /\ log[i].stage = stage

\* the second parse of a stage, made on what retryJsonFix returned, failed
SecondParseFailed(stage) ==
    \E i \in 1..(Len(log) - 1) :
        /\ log[i].op = "retryJsonFix"
        /\ log[i].stage = stage
        /\ log[i + 1] = ParseMade(stage, FALSE)

\* a completion call of a stage (the stage's own or retryJsonFix's) raised: the
\* stage made no parse on it, the next entry is the next stage's call or, once
\* the service has returned, there is none
Raised(i) ==
    /\ log[i].op \in { "complete", "retryJsonFix" }
    /\ log[i].stage \in ExtractionStages
    /\ IF i = Len(log) THEN AtController ELSE log[i + 1].op = "complete"

StageEventNames ==
    LET IsStageEvent(e) == e.name \in { "loop_built", "spiess_built", "summary_built" }
        built == SelectSeq(events, IsStageEvent)
    IN  [ i \in 1..Len(built) |-> built[i].name ]

Placeholders == repairNarrativeLoop(normalizeNarrativeLoop(Obj(<<>>)))

\* C11: a failed parse (the second one included) or a failed schema validation in
\* an extraction stage gives no error result: the stage yields its placeholders
\* or its default, the later stages run and the invocation returns a completed
\* result with success = true.
C11_FailuresAbsorbed ==
    (AtController /\ CalledStage("loop")) =>
        /\ result.success
        /\ result.stage = "completed"
        /\ result.code = ""
        /\ StageEventNames = << "loop_built", "spiess_built", "summary_built" >>
        /\ SecondParseFailed("loop") => result.narrativeLoop = Placeholders
        /\ SecondParseFailed("summary") => result.summary = getDefaultSummary

C11_Witness ==
    /\ AtController
    /\ SecondParseFailed("loop")
    /\ SecondParseFailed("summary")
    /\ ~narrativeLoopSchema(normalizeNarrativeLoop(Obj(<<>>)))
    /\ result.success

\* C12 as stated: a completion call that raises in an extraction stage gives the
\* caller a processing-error result (success = false, code AI_PROCESSING_ERROR).
C12_StageExceptionIsProcessingError ==
    (AtController /\ \E i \in 1..Len(log) : Raised(i)) =>
        /\ result.success = FALSE
        /\ result.code = "AI_PROCESSING_ERROR"

\* C12 amended: a completion call that raises in an extraction stage is caught
\* in the stage, which returns its fixed default value; the later stages run and
\* the caller receives a completed result with success = true and no error text.
C12_StageExceptionYieldsDefault ==
    \A i \in 1..Len(log) :
        Raised(i) =>
            /\ log[i].stage = "loop" => narrativeLoop = getDefaultNarrativeLoop
            /\ log[i].stage = "spiess" => spiessMap = getDefaultSpiessMap
            /\ AtController =>
                  /\ result.success
                  /\ result.stage = "completed"
                  /\ result.code = "" /\ result.message = ""
                  /\ log[i].stage = "summary" => result.summary = getDefaultSummary

C12_Witness ==
    /\ AtController
    /\ \E i \in 1..Len(log) : Raised(i) /\ log[i].stage = "loop" /\ log[i].op = "complete"
    /\ \E i \in 1..Len(log) : Raised(i) /\ log[i].stage = "summary" /\ log[i].op = "retryJsonFix"
    /\ result.narrativeLoop = getDefaultNarrativeLoop

\* C13: every invocation returns a result with the invocation's sessionId and a
\* boolean success; an exception after the start (trackQuestionsAsked raising in
\* analyze) ends in the top-level catch: a safe_exit event and the generic
\* AI_PROCESSING_ERROR result with its fixed message.
C13_AlwaysStructuredResult ==
    AtController =>
        /\ result # None
        /\ result.sessionId = req.sessionId
        /\ result.sessionId # NoId
        /\ result.success \in BOOLEAN
        /\ (CalledStage("questions") /\ "questions_asked" \notin EventNames) =>
              /\ result = ErrorResult(req.sessionId, "AI_PROCESSING_ERROR",
                                      "Analysis failed due to processing error")
              /\ events[Len(events)] = Event("safe_exit", req.sessionId, "processing_error")
        /\ result.code = "AI_PROCESSING_ERROR" =>
              /\ ~result.success
              /\ events[Len(events)].name = "safe_exit"

C13_Witness ==
    /\ pc = "ctl_analyze"
    /\ CalledStage("questions")
    /\ result.code = "AI_PROCESSING_ERROR"
    /\ events[Len(events)] = Event("safe_exit", req.sessionId, "processing_error")

\* C14: a failure in an analytics-tracking step never changes what the
\* invocation returns: once the questions were generated, analyze returns them,
\* whatever the elements of the question list are.
C14_TrackingNeverChangesResult ==
    (pc = "ctl_analyze" /\ CalledStage("questions")) =>
        /\ result.success
        /\ result.stage = "clarifying_questions"
        /\ "questions_asked" \in EventNames

\* C15: the stages run in the order NarrativeLoop, SpiessMap, Summary: loop_built,
\* spiess_built, summary_built are emitted once each in that order, the
\* SpiessMap call is built from the returned narrativeLoop and the Summary call
\* from the returned narrativeLoop and spiessMap.
StageCalls ==
    LET IsStageCall(e) == e.op = "complete" /\ e.stage \in ExtractionStages
    IN  SelectSeq(log, IsStageCall)

IsPrefix(s, t) == Len(s) <= Len(t) /\ s = SubSeq(t, 1, Len(s))

SaysYes(content) == content.t = "str" /\ content.txt \in { "YES", "Yes", "yes" }

QuestionsNeeded ==
    \E i \in 1..Len(log) :
        log[i].op = "returned" /\ log[i].stage = "needsQuestions" /\ SaysYes(log[i].arg)

C16_QuestionsBranchReturnsQuestions ==
    (pc = "ctl_analyze" /\ QuestionsNeeded) =>
        /\ result.success
        /\ result.stage = "clarifying_questions"
        /\ result.needsAnswers
        /\ Len(result.questions) <= 3
        /\ StageCalls = <<>>
        /\ StageEventNames = <<>>

\* C17: a result with stage clarifying_questions and needsAnswers = true holds at
\* least one and at most three questions.
C17_OneToThreeQuestions ==
    (result # None /\ result.stage = "clarifying_questions" /\ result.needsAnswers) =>
        Len(result.questions) \in 1..3

\* C18: the sessionId analyze returns passes the request validation of the
\* answers endpoint with any array of answers, so that the session can be resumed.
C18_ReturnedSessionIdResumes ==
    (pc = "ctl_analyze" /\ result # None /\ result.success) =>
        \A answers \in AnswerLists :
            answers.isArray => AnswersRequestValid(result.sessionId, answers)

SummaryShape(v) ==
    /\ v.t = "obj"
    /\ Get(v, "content").t = "str"
    /\ Get(v, "mechanisms").t = "arr"
    /\ Len(Get(v, "mechanisms").items) \in 1..5
    /\ \A i \in 1..Len(Get(v, "mechanisms").items) :
          /\ Get(v, "mechanisms").items[i].t = "str"
          /\ Length(Get(v, "mechanisms").items[i]) <= 100
    /\ Get(v, "nextStep").t = "str"
    /\ Length(Get(v, "nextStep")) <= 200

C20_SummaryInShape ==
    Completed => SummaryShape(result.summary)

\* ============================================================== result claims
\* the tags a session may carry: sessionSchema.tags and the Session model's enum
sessionTags ==
    { "fear_of_rejection", "autonomy_threat", "perfectionism", "people_pleasing",
      "boundary_signaling", "attention_testing", "vulnerability_avoidance" }

ValueKeywords(nl, sp) == UNION { KeywordsIn(x) : x \in StructureContents(nl, sp) }

\* C22: every tag of a completed result is one of the seven terms of the tag
\* taxonomy, and no tag occurs twice.
C22_TagsInTaxonomy ==
    Completed =>
        /\ \A i \in 1..Len(result.tags) : result.tags[i] \in sessionTags
        /\ \A i, j \in 1..Len(result.tags) : i # j => result.tags[i] # result.tags[j]

\* C23: in every spiessMap a stage hands on or a result carries (validated,
\* repaired or default) each need is a member of needsEnum and
\* toolAction.protocol is STOP, Values First or Bridge Belief.
EnumsHold(sp) ==
    /\ \A i \in 1..Len(sp.needs) :
          IsString(sp.needs[i]) /\ sp.needs[i].ws = 0 /\ sp.needs[i].txt \in needsEnum
    /\ IsString(sp.toolAction.protocol)
    /\ sp.toolAction.protocol.ws = 0
    /\ sp.toolAction.protocol.txt \in protocolEnum

C23_NeedsAndProtocolInEnums ==
    /\ spiessMap # None => EnumsHold(spiessMap)
    /\ Completed => EnumsHold(result.spiessMap)

\* a completed result whose spiessMap was repaired from a map with seven steps
\* and the protocol 'stop'
C23_Witness ==
    /\ Completed
    /\ result.spiessMap.toolAction.protocol = Stop
    /\ Len(result.spiessMap.toolAction.steps) = 5
    /\ result.spiessMap.toolAction.example = HypExample

\* C30: a completed result carries a tag only when one of the tag's keywords
\* occurs in a field value of its narrativeLoop or spiessMap; field names never
\* contribute, so attention_testing is absent when no value holds "attention"
\* or "test".
C30_TagsFromValuesOnly ==
    Completed =>
        \A i \in 1..Len(result.tags) :
            \E r \in 1..Len(TagRules) :
                /\ TagRules[r].tag = result.tags[i]
                /\ TagHit(ValueKeywords(result.narrativeLoop, result.spiessMap), TagRules[r])

\* C28: no text that analyze passes to a completion call holds a crisis keyword
\* or matches a crisis pattern, text that becomes crisis content only once the
\* markup is stripped included.
C28_NoCrisisTextToCompletion ==
    \A i \in 1..Len(log) :
        (/\ req.entry = "analyze"
         /\ log[i].op = "complete"
         /\ log[i].stage \in StagesOnCallerText) => ~HasCrisisContent(log[i].arg)

\* ============================================== the pure functions on their own
\* One call of one function of the service per behaviour: gInput holds the
\* function and its argument, gResult what it returned.
MaxExtraWords == 3   \* words a summary content may have beyond the cap of 250
MaxNeeds == 4        \* needs a completion may list
MaxSplitLen == 6     \* tokens of an input that splits a phrase by markup

\* the JavaScript object a normalizer returns
LoopValue(nl) ==
    Obj([ trigger |-> nl.trigger, fear |-> nl.fear, emotion |-> nl.emotion,
          outcome |-> nl.outcome, whyItFeelsReal |-> nl.whyItFeelsReal,
          hiddenLogic |-> nl.hiddenLogic,
          breakingActions |-> Arr(nl.breakingActions),
          mechanisms |-> Arr(nl.mechanisms) ])

FnInputs ==
    LET FnCall(fn, arg) == [ fn |-> fn, arg |-> arg ]
        \* a failed JSON.parse, with the strategy that made it
        ParseErrorAt(k) == [ t |-> "error", at |-> k ]
        Doc(k) == Obj([ content |-> Text(k) ])
        texts ==
            { CompletionText(d, f, hb, he, b, n) :
                d \in { ParseErrorAt("direct"), Doc(1) },
                f \in { NoMatch, ParseErrorAt("fenced"), Doc(2) },
                hb \in BOOLEAN, he \in BOOLEAN,
                b \in { ParseErrorAt("balanced"), Doc(3) },
                n \in { ParseErrorAt("naive"), Doc(4) } }
        \* a scan closes only a brace that is there; a region or a candidate
        \* parses only when there is one
        possible(x) ==
            /\ x.hasEnd => x.hasBraces
            /\ x.balanced.t # "error" => x.hasEnd
            /\ x.naive.t # "error" => x.hasBraces
        contents ==
            { Str("model", 6 * w, 0, w) : w \in 248..(250 + MaxExtraWords) }
                \cup { Undef, Num, EmptyStr, Padded(30) }
        summaries ==
            { Parsed(TRUE, Obj([ GoodSummary.f EXCEPT !["content"] = c ])) : c \in contents }
                \cup { Parsed(TRUE, Null), Parsed(TRUE, Obj(<<>>)),
                       Parsed(FALSE, ParseErrorAt("direct")) }
        needValues ==
            { Lit("Safety", 6, 1), Lit("control", 7, 1), Lit("happiness", 9, 1),
              Str("growth", 6, 2, 1), Num }
        spiessMaps ==
            { Parsed(TRUE, Obj([ GoodSpiess.f EXCEPT !["needs"] = Arr(s) ])) :
                s \in SeqsUpTo(needValues, MaxNeeds) }
        strings == { Undef, Null, Num, EmptyStr, Blank, Padded(30), Text(40), Arr(<<>>) }
        arrays ==
            { Undef, Null, Num, Text(5), Arr(<<>>), Arr(<< Num, Blank, Padded(5), Text(3) >>),
              Arr(<< Arr(<<>>), Null >>) }
        loops ==
            { Undef, Null, Num, Text(5), Arr(<<>>), Obj(<<>>) }
                \cup { Obj([ trigger |-> a, mechanisms |-> m ]) : a \in strings, m \in arrays }
                \cup { Obj([ GoodLoop.f EXCEPT !["fear"] = a, !["breakingActions"] = m ]) :
                         a \in strings, m \in arrays }
    IN  { FnCall("safeJsonParse", x) : x \in { t \in texts : possible(t) } }
            \cup { FnCall("buildSummary", x) : x \in summaries }
            \cup { FnCall("buildSpiessMap", x) : x \in spiessMaps }
            \cup { FnCall("normalizeNarrativeLoop", x) : x \in loops }
            \cup { FnCall("validateInput", [ t |-> "str", text |-> x ]) :
                     x \in SeqsUpTo({ "INJa", "TAG", "INJb" }, MaxSplitLen) }

FnInit ==
    /\ gInput \in FnInputs
    /\ gOptIn = FALSE
    /\ gRedact = TRUE
    /\ gResult = None
    /\ gDone = FALSE
    /\ suspended = <<>>
    /\ RunIdle
    /\ StoreEmpty

FnNext ==
    /\ ~gDone
    /\ gDone' = TRUE
    /\ UNCHANGED << gInput, gOptIn, gRedact, suspended, runVars, storeVars >>
    /\ \/ /\ gInput.fn = "safeJsonParse"
          /\ gResult' = safeJsonParse(gInput.arg)
       \/ /\ gInput.fn = "buildSummary"
          /\ gResult' = SummaryFromParsed(gInput.arg)
       \/ /\ gInput.fn = "buildSpiessMap"
          /\ gResult' = SpiessFromParsed(gInput.arg)
       \/ /\ gInput.fn = "normalizeNarrativeLoop"
          /\ gResult' = normalizeNarrativeLoop(gInput.arg)
       \/ /\ gInput.fn = "validateInput"
          /\ gResult' = validateInput(gInput.arg.text, gOptIn, gRedact)

SpecFn == FnInit /\ [][FnNext]_vars

FnReturned(fn) == gDone /\ gInput.fn = fn

C24_RepairedNeeds ==
    FnReturned("buildSpiessMap") =>
        LET sp      == normalizeSpiessMap(gInput.arg.data)
            members == SelectSeq(sp.needs, LAMBDA v : v.txt \in needsEnum)
        IN  ~spiessMapSchema(sp) =>
                gResult.needs = IF members = <<>> THEN << Lit("safety", 6, 1) >>
                                ELSE SubSeq(members, 1, Min(Len(members), 3))

\* four needs, the first not in the enumeration: the three after it come back
C24_Witness ==
    /\ FnReturned("buildSpiessMap")
    /\ Len(gInput.arg.data.f.needs.items) = 4
    /\ gInput.arg.data.f.needs.items[1] = Lit("happiness", 9, 1)
    /\ gResult.needs = << Lit("control", 7, 1), Lit("safety", 6, 1), Str("growth", 6, 0, 1) >>

\* C26: safeJsonParse returns ok with the data of the first strategy that
\* parses, in the order whole text, fenced block, balanced-brace region, the
\* first-to-last-brace text being tried only when no balanced region is found;
\* when none parses it returns not-ok with the error of the whole-text parse.
C26_FirstStrategyWins ==
    FnReturned("safeJsonParse") =>
        LET x      == gInput.arg
            parses(v) == v.t \notin { "error", "nomatch" }
            region == x.hasBraces /\ x.hasEnd
        IN  CASE parses(x.direct)                       -> gResult = Parsed(TRUE, x.direct)
              [] ~parses(x.direct) /\ parses(x.fenced)  -> gResult = Parsed(TRUE, x.fenced)
              [] ~parses(x.direct) /\ ~parses(x.fenced) /\ region /\ parses(x.balanced)
                                                        -> gResult = Parsed(TRUE, x.balanced)
              [] ~parses(x.direct) /\ ~parses(x.fenced) /\ x.hasBraces /\ ~region
                 /\ parses(x.naive)                     -> gResult = Parsed(TRUE, x.naive)
              [] OTHER -> gResult = Parsed(FALSE, x.direct)

\* a balanced region that does not parse while the first-to-last-brace text
\* would: the parse fails with the error of the whole-text parse
C26_Witness ==
    /\ FnReturned("safeJsonParse")
    /\ gInput.arg.hasEnd
    /\ gInput.arg.balanced.t = "error"
    /\ gInput.arg.naive.t # "error"
    /\ gInput.arg.fenced.t = "error"
    /\ gResult = Parsed(FALSE, gInput.arg.direct)
    /\ gResult.data.at = "direct"

\* C27: normalizeNarrativeLoop is idempotent: applied to its own result it
\* returns that result, for null, non-objects and objects with missing or
\* wrongly typed fields alike.
C27_NormalizeIdempotent ==
    FnReturned("normalizeNarrativeLoop") =>
        normalizeNarrativeLoop(LoopValue(gResult)) = gResult

\* an object whose padded string was trimmed and whose list lost its
\* non-strings and blanks
C27_Witness ==
    /\ FnReturned("normalizeNarrativeLoop")
    /\ Get(gInput.arg, "trigger") = Padded(30)
    /\ gResult.trigger = Text(30)
    /\ Get(gInput.arg, "mechanisms") = Arr(<< Num, Blank, Padded(5), Text(3) >>)
    /\ gResult.mechanisms = << Text(5), Text(3) >>

\* C29: the processedInput of an accepted input holds no text that matches a
\* prompt injection pattern: every occurrence is replaced, not only the first of
\* each pattern.
C29_NoInjectionTextLeft ==
    (FnReturned("validateInput") /\ gResult.isValid) =>
        ~HasInjectionContent(gResult.processedInput)

\* ================================== two analyze invocations in one process
\* The service is one object without per-request fields: what an invocation
\* holds between two awaits are its parameters and locals.  The invocation that
\* runs has them in pc .. result; the one waiting at an await has them in
\* suspended.  Analytics events go to the one collection both write to.
PairInit ==
    \E a \in { <<"KW">>, <<"NAME", "w", "EMAIL">> },
       b \in { <<"KW">>, <<"NAME", "w", "EMAIL">> } :
        LET Request(input) ==
                [ entry |-> "analyze", input |-> input, storageOptIn |-> FALSE,
                  redactNames |-> TRUE, answers |-> NotAnArray, sessionId |-> NoId ]
        IN  /\ gInput = <<>>
            /\ gOptIn = FALSE
            /\ gRedact = TRUE
            /\ gResult = GateResult(FALSE, FALSE, "", NoResponse, <<>>)
            /\ gDone = FALSE
            /\ pc = "analyze"
            /\ req = Request(a)
            /\ validation = None
            /\ log = <<>>
            /\ events = <<>>
            /\ narrativeLoop = None
            /\ spiessMap = None
            /\ result = None
            /\ suspended = << [ pc |-> "analyze", req |-> Request(b), validation |-> None,
                                log |-> <<>>, narrativeLoop |-> None, spiessMap |-> None,
                                result |-> None ] >>
            /\ StoreEmpty

\* Switch for a service that keeps the stage values in fields of the one
\* service object: the resumed invocation finds the values of the one that ran
SwitchSharedStageValues ==
    /\ suspended # <<>>
    /\ suspended[1].pc # "ctl_analyze"
    /\ pc' = suspended[1].pc
    /\ req' = suspended[1].req
    /\ validation' = suspended[1].validation
    /\ log' = suspended[1].log
    /\ result' = suspended[1].result
    /\ suspended' = << [ pc |-> pc, req |-> req, validation |-> validation, log |-> log,
                         narrativeLoop |-> narrativeLoop, spiessMap |-> spiessMap,
                         result |-> result ] >>
    /\ UNCHANGED << gInput, gOptIn, gRedact, gResult, gDone, events, storeVars,
                    narrativeLoop, spiessMap >>

\* The invocation that runs reached an await (or returned): the event loop
\* resumes the other one, which has not returned yet.
Switch ==
    /\ suspended # <<>>
    /\ suspended[1].pc # "ctl_analyze"
    /\ pc' = suspended[1].pc
    /\ req' = suspended[1].req
    /\ validation' = suspended[1].validation
    /\ log' = suspended[1].log
    /\ narrativeLoop' = suspended[1].narrativeLoop
    /\ spiessMap' = suspended[1].spiessMap
    /\ result' = suspended[1].result
    /\ suspended' = << [ pc |-> pc, req |-> req, validation |-> validation, log |-> log,
                         narrativeLoop |-> narrativeLoop, spiessMap |-> spiessMap,
                         result |-> result ] >>
    /\ UNCHANGED << gInput, gOptIn, gRedact, gResult, gDone, events, storeVars >>

\* what the completion service returns to the two invocations: an answer to
\* needsClarifyingQuestions, questions, and for each stage a document that parses
\* at once or an exception; a call may also never return
PairOutcomes(p, nl, sp, res) ==
    /\ p \notin { "questions_retry", "loop_retry", "spiess_retry", "summary_retry" }
    /\ nl \in { None, getDefaultNarrativeLoop, LoopFromParsed(Parsed(TRUE, GoodLoop)) }
    /\ sp \in { None, getDefaultSpiessMap, SpiessFromParsed(Parsed(TRUE, BadNeedsSpiess)) }
    /\ (res # None /\ res.stage = "completed") =>
            res.summary \in { getDefaultSummary, GoodSummary }
    /\ (res # None /\ res.stage = "clarifying_questions") => Len(res.questions) = 2

PairNext ==
    \/ AnalyzeStart
    \/ NeedsQuestionsReturn
    \/ QuestionsReturn /\ PairOutcomes(pc', narrativeLoop', spiessMap', result')
    \/ LoopReturn /\ PairOutcomes(pc', narrativeLoop', spiessMap', result')
    \/ SpiessReturn /\ PairOutcomes(pc', narrativeLoop', spiessMap', result')
    \/ SummaryReturn /\ PairOutcomes(pc', narrativeLoop', spiessMap', result')
    \/ Switch

SpecPair == PairInit /\ [][PairNext]_vars

\* ---------------------------------------------------------- concurrency claims
Running ==
    [ pc |-> pc, req |-> req, validation |-> validation, log |-> log,
      narrativeLoop |-> narrativeLoop, spiessMap |-> spiessMap, result |-> result ]

Invocations == { Running } \cup { suspended[i] : i \in 1..Len(suspended) }

\* the names of the events tracked under an invocation's sessionId, in order
OwnEvents(f) ==
    LET own == SelectSeq(events, LAMBDA e : e.sessionId = f.req.sessionId)
    IN  [ i \in 1..Len(own) |-> own[i].name ]

\* the events an invocation on its own has tracked once it stands where f stands
EventsAlone(f) ==
    IF f.pc = "analyze" THEN <<>>
    ELSE IF ~f.validation.isValid THEN << "session_started", "safe_exit" >>
    ELSE << "session_started", "input_received" >> \o
         (CASE f.pc = "spiess"  -> << "loop_built" >>
            [] f.pc = "summary" -> << "loop_built", "spiess_built" >>
            [] f.pc = "ctl_analyze" /\ f.result.stage = "completed"
                                -> << "loop_built", "spiess_built", "summary_built" >>
            [] f.pc = "ctl_analyze" /\ f.result.stage = "clarifying_questions"
                                -> << "questions_asked" >>
            [] f.pc = "ctl_analyze" /\ f.result.stage = ""
                                -> << "safe_exit" >>
            [] OTHER            -> <<>>)

\* everything an invocation holds and returns comes from its own input and from
\* the completions of its own calls
OwnRun(f) ==
    /\ f.validation # None =>
          f.validation = validateInput(f.req.input, f.req.storageOptIn, f.req.redactNames)
    /\ \A i \in 1..Len(f.log) :
          f.log[i].op = "complete" =>
              CASE f.log[i].stage \in StagesOnCallerText
                        -> f.log[i].arg = f.validation.processedInput
                [] f.log[i].stage = "spiess"
                        -> f.log[i].arg = f.narrativeLoop
                [] f.log[i].stage = "summary"
                        -> f.log[i].arg = << f.narrativeLoop, f.spiessMap >>
                [] OTHER -> FALSE
    /\ f.result # None =>
          /\ f.result.sessionId = f.req.sessionId
          /\ (f.result.response.code # "") = HasCrisisContent(f.req.input)
          /\ f.result.stage = "completed" =>
                /\ f.result.narrativeLoop = f.narrativeLoop
                /\ f.result.spiessMap = f.spiessMap
                /\ f.result.tags = detectMechanisms(f.narrativeLoop, f.spiessMap)
    /\ OwnEvents(f) = EventsAlone(f)

====
